---- MODULE Spec2Model ----
(***************************************************************************)
(* QuizCrafter tools: load_documents and save_quiz_to_markdown             *)
(* (src/quizcrafter/agent.py).                                             *)
(*                                                                         *)
(* Strings are sequences of Unicode code points, file contents sequences   *)
(* of bytes, so that sorting, suffix extraction, lower-casing, decoding,   *)
(* newline translation and joining are computed character by character.    *)
(***************************************************************************)
EXTENDS Integers, Sequences, FiniteSets, TLC

VARIABLES
    fs,             \* the filesystem: canonical path -> entry
    pc,             \* position of the current call
    glob_prefix,    \* the literal directory prefix the pattern carries ("" or "./")
    matched_paths,  \* load_documents: matched_paths
    idx,            \* load_documents: position of the for loop in matched_paths (1-based)
    texts,          \* load_documents: texts
    opened,         \* canonical paths whose content the call has opened for reading
    result,         \* the returned dict, once the call has returned
    raised,         \* the exception that left the call, "" if none
    call            \* save_quiz_to_markdown: the arguments of the last call

vars == <<fs, pc, glob_prefix, matched_paths, idx, texts, opened, result, raised, call>>

(***************************************************************************)
(* Bounds                                                                  *)
(***************************************************************************)
MaxMatched == 3     \* most paths one pattern expansion returns
MaxBytes == 3       \* longest text file content, in bytes
MaxPages == 3       \* most pages of a PDF
MaxContent == 2     \* longest markdown_content, in characters

(***************************************************************************)
(* Strings                                                                 *)
(***************************************************************************)
RECURSIVE Concat(_)
Concat(ss) == IF ss = <<>> THEN <<>> ELSE Head(ss) \o Concat(Tail(ss))

\* str.join
RECURSIVE Join(_, _)
Join(sep, ss) ==
    IF ss = <<>> THEN <<>>
    ELSE IF Len(ss) = 1 THEN ss[1]
    ELSE ss[1] \o sep \o Join(sep, Tail(ss))

\* str.lower on the ASCII letters
Lower(c) == IF c >= 65 /\ c <= 90 THEN c + 32 ELSE c
StrLower(s) == [i \in 1..Len(s) |-> Lower(s[i])]

\* s < t by code point, as Python compares str
RECURSIVE StrLess(_, _)
StrLess(s, t) ==
    IF t = <<>> THEN FALSE
    ELSE IF s = <<>> THEN TRUE
    ELSE IF Head(s) # Head(t) THEN Head(s) < Head(t)
    ELSE StrLess(Tail(s), Tail(t))

\* the sequences over S of length at most n
SeqsUpTo(S, n) == UNION {[1..k -> S] : k \in 0..n}

\* the sequences of distinct elements of S of length at most n
DistinctSeqs(S, n) == {s \in SeqsUpTo(S, n) : \A i, j \in 1..Len(s) : i # j => s[i] # s[j]}

\* str.rfind of one character: the last index holding c, 0 if none
LastIndexOf(s, c) ==
    LET hits == {i \in 1..Len(s) : s[i] = c} IN
    IF hits = {} THEN 0 ELSE CHOOSE i \in hits : \A j \in hits : j <= i

(***************************************************************************)
(* sorted(...)                                                             *)
(***************************************************************************)
RECURSIVE Insert(_, _)
Insert(x, s) ==
    IF s = <<>> THEN <<x>>
    ELSE IF StrLess(x, Head(s)) THEN <<x>> \o s
    ELSE <<Head(s)>> \o Insert(x, Tail(s))

RECURSIVE SortedAsc(_)
SortedAsc(s) == IF s = <<>> THEN <<>> ELSE Insert(Head(s), SortedAsc(Tail(s)))

\* the matched paths left in the order the directory scan yields them
Unsorted(s) == s

\* sorted(...)
Sorted(s) == SortedAsc(s)

(***************************************************************************)
(* pathlib                                                                 *)
(***************************************************************************)
\* the components of a relative path: split on "/", dropping "" and "."
RECURSIVE SplitOn(_, _, _)
SplitOn(s, c, cur) ==
    IF s = <<>> THEN <<cur>>
    ELSE IF Head(s) = c THEN <<cur>> \o SplitOn(Tail(s), c, <<>>)
    ELSE SplitOn(Tail(s), c, Append(cur, Head(s)))

Parts(p) == SelectSeq(SplitOn(p, 47, <<>>), LAMBDA x : x # <<>> /\ x # <<46>>)

\* str(Path(p))
PathStr(p) == IF Parts(p) = <<>> THEN <<46>> ELSE Join(<<47>>, Parts(p))

\* Path(p).name
Name(p) == IF Parts(p) = <<>> THEN <<>> ELSE Parts(p)[Len(Parts(p))]

\* Path(p).parent, as components
ParentParts(p) == IF Parts(p) = <<>> THEN <<>> ELSE SubSeq(Parts(p), 1, Len(Parts(p)) - 1)

\* Path(p).suffix: from the last dot of the name, unless that dot is first or last
Suffix(p) ==
    LET name == Name(p)
        i == LastIndexOf(name, 46)
    IN  IF 1 < i /\ i < Len(name) THEN SubSeq(name, i, Len(name)) ELSE <<>>

\* the suffix compared as written, upper case included
SuffixAsIs(p) == Suffix(p)

\* path_obj.suffix.lower()
LoweredSuffix(p) == StrLower(Suffix(p))

(***************************************************************************)
(* Filesystem entries                                                      *)
(***************************************************************************)
NoPdf == [ok |-> FALSE, pages |-> <<>>, msg |-> <<69,79,70>>]
Absent == [kind |-> "absent", readable |-> FALSE, bytes |-> <<>>, pdf |-> NoPdf]
Dir == [kind |-> "dir", readable |-> TRUE, bytes |-> <<>>, pdf |-> NoPdf]
File(bytes) == [kind |-> "file", readable |-> TRUE, bytes |-> bytes, pdf |-> NoPdf]
Unreadable(bytes) == [kind |-> "file", readable |-> FALSE, bytes |-> bytes, pdf |-> NoPdf]
PdfFile(pages) == [kind |-> "file", readable |-> TRUE, bytes |-> <<>>,
                   pdf |-> [ok |-> TRUE, pages |-> pages, msg |-> <<>>]]

\* path_obj.exists(): a directory passes too
Exists(f, p) == PathStr(p) \in DOMAIN f /\ f[PathStr(p)].kind # "absent"

\* path_obj.is_file()
IsFile(f, p) == PathStr(p) \in DOMAIN f /\ f[PathStr(p)].kind = "file"

(***************************************************************************)
(* Codecs and text-mode reading                                            *)
(***************************************************************************)
\* bytes.decode("utf-8"), strict, for the one- and two-byte forms (code points below
\* U+0800); any other lead byte, a lone continuation byte and an overlong form fail
RECURSIVE Utf8Decode(_)
Utf8Decode(b) ==
    IF b = <<>> THEN [ok |-> TRUE, text |-> <<>>]
    ELSE IF b[1] < 128 THEN
        LET r == Utf8Decode(Tail(b)) IN
        [ok |-> r.ok, text |-> IF r.ok THEN <<b[1]>> \o r.text ELSE <<>>]
    ELSE IF b[1] >= 194 /\ b[1] <= 223 /\ Len(b) >= 2 /\ b[2] >= 128 /\ b[2] <= 191 THEN
        LET r == Utf8Decode(SubSeq(b, 3, Len(b))) IN
        [ok |-> r.ok,
         text |-> IF r.ok THEN <<(b[1] - 192) * 64 + (b[2] - 128)>> \o r.text ELSE <<>>]
    ELSE [ok |-> FALSE, text |-> <<>>]

\* bytes.decode("latin-1"): byte k is code point k; it never fails
Latin1Decode(b) == [ok |-> TRUE, text |-> [i \in 1..Len(b) |-> b[i]]]

\* str.encode("utf-8") for code points below U+0800
RECURSIVE Utf8Encode(_)
Utf8Encode(s) ==
    IF s = <<>> THEN <<>>
    ELSE IF s[1] < 128 THEN <<s[1]>> \o Utf8Encode(Tail(s))
    ELSE <<192 + (s[1] \div 64), 128 + (s[1] % 64)>> \o Utf8Encode(Tail(s))

\* text-mode reading with newline=None: "\r\n" and a lone "\r" become "\n"
RECURSIVE UniversalNewlines(_)
UniversalNewlines(s) ==
    IF s = <<>> THEN <<>>
    ELSE IF s[1] = 13 THEN
        IF Len(s) >= 2 /\ s[2] = 10
        THEN <<10>> \o UniversalNewlines(SubSeq(s, 3, Len(s)))
        ELSE <<10>> \o UniversalNewlines(Tail(s))
    ELSE <<s[1]>> \o UniversalNewlines(Tail(s))

Decode(encoding, b) == IF encoding = "utf-8" THEN Utf8Decode(b) ELSE Latin1Decode(b)

\* path_obj.read_text(encoding=...): the text, or the exception it raises
ReadText(f, p, encoding) ==
    LET e == f[PathStr(p)]
        d == Decode(encoding, e.bytes)
    IN  IF ~e.readable THEN [exc |-> "PermissionError", text |-> <<>>]
        ELSE IF ~d.ok THEN [exc |-> "UnicodeDecodeError", text |-> <<>>]
        ELSE [exc |-> "", text |-> UniversalNewlines(d.text)]

\* the file always read as latin-1
TextBranchLatin1(f, p) == ReadText(f, p, "latin-1")

\* the .txt / .md branch: utf-8, and latin-1 when utf-8 decoding fails
TextBranch(f, p) ==
    LET first == ReadText(f, p, "utf-8") IN
    IF first.exc = "UnicodeDecodeError" THEN ReadText(f, p, "latin-1") ELSE first

(***************************************************************************)
(* The .pdf branch                                                         *)
(***************************************************************************)
\* f"[ERROR reading PDF {path_obj.name}: {e}]"
PdfErrorNote(p, msg) ==
    <<91,69,82,82,79,82,32,114,101,97,100,105,110,103,32,80,68,70,32>>
        \o Name(p) \o <<58,32>> \o msg \o <<93>>

\* page.extract_text() or ""
PageText(page) == IF page.kind = "text" THEN page.text ELSE <<>>

\* the page texts joined with no separator
JoinPagesNoSeparator(page_texts) == Concat(page_texts)

\* "\n".join(page_texts)
JoinPages(page_texts) == Join(<<10>>, page_texts)

\* try: PdfReader, every page's extract_text, join; except Exception: the note
PdfBranch(f, p) ==
    LET e == f[PathStr(p)]
        pages == e.pdf.pages
    IN  IF ~e.readable \/ ~e.pdf.ok \/ (\E i \in 1..Len(pages) : pages[i].kind = "raise")
        THEN PdfErrorNote(p, e.pdf.msg)
        ELSE JoinPages([i \in 1..Len(pages) |-> PageText(pages[i])])

(***************************************************************************)
(* Other extensions, sections, the corpus                                  *)
(***************************************************************************)
\* f"[Skipping unsupported file type: {path_obj.name}]"
UnsupportedNote(p) ==
    <<91,83,107,105,112,112,105,110,103,32,117,110,115,117,112,112,111,114,116,101,100,
      32,102,105,108,101,32,116,121,112,101,58,32>> \o Name(p) \o <<93>>

\* "\n\n===== FILE: {path_obj} =====\n\n"
Header(p) ==
    <<10,10,61,61,61,61,61,32,70,73,76,69,58,32>> \o PathStr(p)
        \o <<32,61,61,61,61,61,10,10>>

\* f"\n\n===== FILE: {path_obj} =====\n\n{text}"
Section(p, text) == Header(p) \o text

\* the corpus always ended by a newline
CombinedTextTrailingNewline(ts) == Join(<<10>>, ts) \o <<10>>

\* "\n".join(texts) if texts else ""
CombinedText(ts) == IF ts # <<>> THEN Join(<<10>>, ts) ELSE <<>>

TextSuffixes == {<<46,116,120,116>>, <<46,109,100>>}
PdfSuffix == <<46,112,100,102>>

(***************************************************************************)
(* load_documents                                                          *)
(***************************************************************************)
Existing(f) == {p \in DOMAIN f : f[p].kind # "absent"}

\* glob.glob(glob_pattern, recursive=True): some existing paths, each once, in the
\* order the directory scan yields them, each carrying the pattern's literal prefix
GlobResults(f) ==
    {[prefix |-> pre, paths |-> [i \in 1..Len(s) |-> pre \o s[i]]] :
        pre \in {<<>>, <<46,47>>}, s \in DistinctSeqs(Existing(f), MaxMatched)}

NoResult == [files |-> <<>>, combined_text |-> <<>>]

\* entry: matched_paths = sorted(glob.glob(...)); texts = []
LoadDocuments ==
    /\ pc = "idle"
    /\ \E g \in GlobResults(fs) :
        /\ glob_prefix' = g.prefix
        /\ matched_paths' = Sorted(g.paths)
    /\ texts' = <<>>
    /\ idx' = 1
    /\ pc' = "loop"
    /\ UNCHANGED <<fs, opened, result, raised, call>>

InLoop == pc = "loop" /\ idx <= Len(matched_paths)

\* if not path_obj.is_file(): continue
SkipNonFile ==
    /\ InLoop
    /\ ~IsFile(fs, matched_paths[idx])
    /\ idx' = idx + 1
    /\ UNCHANGED <<fs, pc, glob_prefix, matched_paths, texts, opened, result, raised, call>>

\* suffix in {".txt", ".md"}: read, append the section; an exception other than
\* UnicodeDecodeError leaves the function
LoadTextFile ==
    /\ InLoop
    /\ IsFile(fs, matched_paths[idx])
    /\ LoweredSuffix(matched_paths[idx]) \in TextSuffixes
    /\ LET p == matched_paths[idx]
           r == TextBranch(fs, p)
       IN  /\ opened' = opened \cup {PathStr(p)}
           /\ IF r.exc # ""
              THEN /\ pc' = "raised"
                   /\ raised' = r.exc
                   /\ UNCHANGED <<idx, texts>>
              ELSE /\ texts' = Append(texts, Section(p, r.text))
                   /\ idx' = idx + 1
                   /\ UNCHANGED <<pc, raised>>
    /\ UNCHANGED <<fs, glob_prefix, matched_paths, result, call>>

\* suffix == ".pdf": the extracted text or the error note, append the section
LoadPdfFile ==
    /\ InLoop
    /\ IsFile(fs, matched_paths[idx])
    /\ LoweredSuffix(matched_paths[idx]) \notin TextSuffixes
    /\ LoweredSuffix(matched_paths[idx]) = PdfSuffix
    /\ LET p == matched_paths[idx] IN
        /\ opened' = opened \cup {PathStr(p)}
        /\ texts' = Append(texts, Section(p, PdfBranch(fs, p)))
    /\ idx' = idx + 1
    /\ UNCHANGED <<fs, pc, glob_prefix, matched_paths, result, raised, call>>

\* else: the unsupported-type note, append the section; the file is not opened
AnnotateUnsupported ==
    /\ InLoop
    /\ IsFile(fs, matched_paths[idx])
    /\ LoweredSuffix(matched_paths[idx]) \notin TextSuffixes
    /\ LoweredSuffix(matched_paths[idx]) # PdfSuffix
    /\ texts' = Append(texts, Section(matched_paths[idx], UnsupportedNote(matched_paths[idx])))
    /\ idx' = idx + 1
    /\ UNCHANGED <<fs, pc, glob_prefix, matched_paths, opened, result, raised, call>>

\* combined = ...; return {"files": matched_paths, "combined_text": combined}
ReturnResult ==
    /\ pc = "loop"
    /\ idx > Len(matched_paths)
    /\ result' = [files |-> matched_paths, combined_text |-> CombinedText(texts)]
    /\ pc' = "done"
    /\ UNCHANGED <<fs, glob_prefix, matched_paths, idx, texts, opened, raised, call>>

(***************************************************************************)
(* Filesystem states the loader is run on                                  *)
(***************************************************************************)
NoCall == [content |-> <<>>, path |-> <<>>, before |-> <<>>]

LoaderStart ==
    /\ pc = "idle"
    /\ glob_prefix = <<>>
    /\ matched_paths = <<>>
    /\ idx = 1
    /\ texts = <<>>
    /\ opened = {}
    /\ result = NoResult
    /\ raised = ""
    /\ call = NoCall

NonePage == [kind |-> "none", text |-> <<>>]
RaisePage == [kind |-> "raise", text |-> <<>>]
TextPage(t) == [kind |-> "text", text |-> t]

\* a mixed tree: "B.TXT", "a.md", "c.pdf", "d", "s" and "s/e.docx"
MixedFs ==
    {  (<<66,46,84,88,84>> :> b) @@ (<<97,46,109,100>> :> a) @@ (<<99,46,112,100,102>> :> c)
       @@ (<<100>> :> d) @@ (<<115>> :> Dir) @@ (<<115,47,101,46,100,111,99,120>> :> e) :
        b \in {File(<<97,195,169>>), File(<<233,13>>), Unreadable(<<97>>)},
        a \in {File(<<97,13,10>>), Dir},
        c \in {PdfFile(<<NonePage, TextPage(<<120>>)>>), PdfFile(<<TextPage(<<120>>), RaisePage>>),
               File(<<97>>)},
        d \in {Dir, File(<<97>>)},
        e \in {File(<<97>>), Unreadable(<<97>>)} }

Init == LoaderStart /\ fs \in MixedFs

Next ==
    \/ LoadDocuments
    \/ SkipNonFile
    \/ LoadTextFile
    \/ LoadPdfFile
    \/ AnnotateUnsupported
    \/ ReturnResult

Spec == Init /\ [][Next]_vars

(***************************************************************************)
(* load_documents on one text file, and on one PDF                         *)
(***************************************************************************)
TextBytes == {97, 13, 10, 195, 169}

\* "n.md" holding any bytes: valid UTF-8 or not
OneTextFileFs == {(<<110,46,109,100>> :> File(b)) : b \in SeqsUpTo(TextBytes, MaxBytes)}

InitText == LoaderStart /\ fs \in OneTextFileFs

NextText ==
    \/ LoadDocuments
    \/ LoadTextFile
    \/ ReturnResult

SpecText == InitText /\ [][NextText]_vars

PageOutcomes == {NonePage, RaisePage, TextPage(<<>>), TextPage(<<120>>), TextPage(<<120,10>>)}

\* "n.PDF" with any pages
OnePdfFs == {(<<110,46,80,68,70>> :> PdfFile(pages)) : pages \in SeqsUpTo(PageOutcomes, MaxPages)}

InitPdf == LoaderStart /\ fs \in OnePdfFs

NextPdf ==
    \/ LoadDocuments
    \/ LoadPdfFile
    \/ ReturnResult

SpecPdf == InitPdf /\ [][NextPdf]_vars

(***************************************************************************)
(* save_quiz_to_markdown                                                   *)
(***************************************************************************)
\* os.linesep where the program runs (POSIX)
LineSep == <<10>>

\* text-mode writing with newline=None: "\n" becomes os.linesep
WriteNewlines(s) == Concat([i \in 1..Len(s) |-> IF s[i] = 10 THEN LineSep ELSE <<s[i]>>])

\* the path of the first k components
PrefixPath(parts, k) == Join(<<47>>, SubSeq(parts, 1, k))

\* out_path.parent.mkdir(parents=True, exist_ok=True): the filesystem after it, or
\* the exception when an ancestor exists and is no directory
MkdirParents(f, p) ==
    LET par == ParentParts(p)
        blocked == \E k \in 1..Len(par) : f[PrefixPath(par, k)].kind = "file"
    IN  IF blocked THEN [exc |-> "FileExistsError", fs |-> f]
        ELSE [exc |-> "",
              fs |-> [q \in DOMAIN f |->
                        IF \E k \in 1..Len(par) : q = PrefixPath(par, k) THEN Dir ELSE f[q]]]

\* the file opened for appending: what it held stays in front of the new text
WriteTextAppend(f, p, content) ==
    IF f[PathStr(p)].kind = "dir" THEN [exc |-> "IsADirectoryError", fs |-> f]
    ELSE [exc |-> "",
          fs |-> [f EXCEPT ![PathStr(p)] = File(f[PathStr(p)].bytes \o Utf8Encode(WriteNewlines(content)))]]

\* out_path.write_text(markdown_content, encoding="utf-8"): creates or truncates the
\* file and writes the encoded text; a directory at the path is an error
WriteText(f, p, content) ==
    IF f[PathStr(p)].kind = "dir" THEN [exc |-> "IsADirectoryError", fs |-> f]
    ELSE [exc |-> "", fs |-> [f EXCEPT ![PathStr(p)] = File(Utf8Encode(WriteNewlines(content)))]]

\* the working directory, "/w"
Cwd == <<47,119>>

\* str(out_path.resolve())
Resolved(p) == Cwd \o <<47>> \o PathStr(p)

MdChars == {233, 10}
OutputPaths == {<<113,46,109,100>>, <<111,117,116,47,115,117,98,47,113,46,109,100>>,
                <<46,47,111,117,116,47,47,115,117,98,47,113,46,109,100>>}

SaveQuizToMarkdown ==
    \E markdown_content \in SeqsUpTo(MdChars, MaxContent), output_path \in OutputPaths :
        LET made == MkdirParents(fs, output_path)
            written == WriteText(made.fs, output_path, markdown_content)
        IN  /\ call' = [content |-> markdown_content, path |-> output_path,
                        before |-> <<fs[PathStr(output_path)].kind>>
                                    \o [k \in 1..Len(ParentParts(output_path)) |->
                                            fs[PrefixPath(ParentParts(output_path), k)].kind]]
            /\ IF made.exc # ""
               THEN /\ fs' = made.fs
                    /\ pc' = "raised"
                    /\ raised' = made.exc
                    /\ result' = NoResult
               ELSE IF written.exc # ""
               THEN /\ fs' = written.fs
                    /\ pc' = "raised"
                    /\ raised' = written.exc
                    /\ result' = NoResult
               ELSE /\ fs' = written.fs
                    /\ pc' = "saved"
                    /\ raised' = ""
                    /\ result' = [status |-> "saved", path |-> Resolved(output_path)]
            /\ UNCHANGED <<glob_prefix, matched_paths, idx, texts, opened>>

\* "q.md", "out", "out/sub", "out/sub/q.md": a child exists only in a directory
OutputFs ==
    {  (<<113,46,109,100>> :> q) @@ (<<111,117,116>> :> o) @@ (<<111,117,116,47,115,117,98>> :> sub)
       @@ (<<111,117,116,47,115,117,98,47,113,46,109,100>> :> t) :
        q \in {Absent, Dir, File(<<10>>)},
        o \in {Absent, Dir, File(<<>>)},
        sub \in {Absent, Dir, File(<<>>)},
        t \in {Absent, Dir, File(<<195,169>>)} }

ConsistentFs(f) ==
    /\ f[<<111,117,116>>].kind # "dir" => f[<<111,117,116,47,115,117,98>>].kind = "absent"
    /\ f[<<111,117,116,47,115,117,98>>].kind # "dir"
        => f[<<111,117,116,47,115,117,98,47,113,46,109,100>>].kind = "absent"

InitSave == LoaderStart /\ fs \in {f \in OutputFs : ConsistentFs(f)}

NextSave == SaveQuizToMarkdown

SpecSave == InitSave /\ [][NextSave]_vars

(***************************************************************************)
(* Vocabulary of the properties                                            *)
(***************************************************************************)
\* the filesystem path a matched string names: the string without the pattern's prefix
Canon(p) == SubSeq(p, Len(glob_prefix) + 1, Len(p))

IsRegular(p) == fs[Canon(p)].kind = "file"

\* the regular files among the paths s, in the order of s
RegularOf(s) == SelectSeq(s, IsRegular)

\* the regular files the loop has gone past
Processed == RegularOf(SubSeq(matched_paths, 1, idx - 1))

HasPrefix(s, pre) == Len(s) >= Len(pre) /\ SubSeq(s, 1, Len(pre)) = pre

\* the name ends with the extension ext, compared without regard to case
HasExtension(p, ext) ==
    LET n == Canon(p) IN
    /\ Len(n) > Len(ext)
    /\ \A k \in 1..Len(ext) : Lower(n[Len(n) - Len(ext) + k]) = ext[k]

IsTextPath(p) == HasExtension(p, <<46,116,120,116>>) \/ HasExtension(p, <<46,109,100>>)
IsPdfPath(p) == HasExtension(p, <<46,112,100,102>>)

\* the header line of the section of path p: "FILE: <path>" between the markers
ExpectedHeader(p) ==
    <<10,10,61,61,61,61,61,32,70,73,76,69,58,32>> \o Canon(p) \o <<32,61,61,61,61,61,10,10>>

\* the content of a section: what follows its header
ContentOf(section, p) == SubSeq(section, Len(ExpectedHeader(p)) + 1, Len(section))

RECURSIVE SumLen(_)
SumLen(ss) == IF ss = <<>> THEN 0 ELSE Len(Head(ss)) + SumLen(Tail(ss))

\* where section i starts in the corpus: after the i-1 sections and separators before it
OffsetOf(i) == SumLen(SubSeq(texts, 1, i - 1)) + (i - 1)

\* the corpus holds the sections of `texts`, in order, one newline between two
CorpusHoldsSections ==
    /\ Len(result.combined_text) = SumLen(texts) + (IF texts = <<>> THEN 0 ELSE Len(texts) - 1)
    /\ \A i \in 1..Len(texts) :
        /\ SubSeq(result.combined_text, OffsetOf(i) + 1, OffsetOf(i) + Len(texts[i])) = texts[i]
        /\ i > 1 => result.combined_text[OffsetOf(i)] = 10

IsSortedAsc(s) == \A i \in 1..(Len(s) - 1) : ~StrLess(s[i + 1], s[i])

Finished == pc \in {"done", "raised"}

\* the file's name: what follows the last "/" of its path
BaseName(p) ==
    LET c == Canon(p)
        slashes == {k \in 1..Len(c) : c[k] = 47}
        last == IF slashes = {} THEN 0 ELSE CHOOSE k \in slashes : \A m \in slashes : m <= k
    IN  SubSeq(c, last + 1, Len(c))

UnsupportedText(p) ==
    <<91,83,107,105,112,112,105,110,103,32,117,110,115,117,112,112,111,114,116,101,100,
      32,102,105,108,101,32,116,121,112,101,58,32>> \o BaseName(p) \o <<93>>

PdfErrorPrefix(p) ==
    <<91,69,82,82,79,82,32,114,101,97,100,105,110,103,32,80,68,70,32>> \o BaseName(p) \o <<58,32>>

\* a matched regular .pdf that cannot be opened or parsed
IsBadPdf(p) ==
    /\ IsRegular(p)
    /\ IsPdfPath(p)
    /\ LET e == fs[Canon(p)] IN
        ~e.readable \/ ~e.pdf.ok \/ \E k \in 1..Len(e.pdf.pages) : e.pdf.pages[k].kind = "raise"

(***************************************************************************)
(* Properties of load_documents                                            *)
(***************************************************************************)
\* C1: a failure reading or parsing one matched file never aborts load_documents:
\* the call does not raise, and once it has returned every matched regular file,
\* the unreadable ones included, has its section.
C1_PerFileFailureNeverAborts ==
    /\ pc # "raised"
    /\ pc = "done" => Len(texts) = Len(RegularOf(matched_paths))

\* C2: every entry of the returned 'files' is a regular file, and no directory has a
\* section in the corpus.
C2_FilesAreRegularFiles ==
    pc = "done" =>
        /\ \A i \in 1..Len(result.files) : IsRegular(result.files[i])
        /\ \A i \in 1..Len(texts), j \in 1..Len(matched_paths) :
            HasPrefix(texts[i], ExpectedHeader(matched_paths[j])) => IsRegular(matched_paths[j])

\* C3: when some regular file is matched, the returned 'files' is sorted by path
\* string, and the corpus holds one section per regular file of that list, section
\* i being headed by the i-th regular file, in that order.
C3_SortedAndSameOrder ==
    (pc = "done" /\ RegularOf(matched_paths) # <<>>) =>
        /\ IsSortedAsc(result.files)
        /\ Len(texts) = Len(RegularOf(result.files))
        /\ \A i \in 1..Len(texts) : HasPrefix(texts[i], ExpectedHeader(RegularOf(result.files)[i]))
        /\ CorpusHoldsSections

C3_Witness ==
    /\ pc = "done"
    /\ Len(result.files) = 3
    /\ Len(texts) = 2
    /\ \E i \in 1..2 : IsBadPdf(RegularOf(result.files)[i])
    /\ \E i \in 1..2 : ~IsTextPath(RegularOf(result.files)[i]) /\ ~IsPdfPath(RegularOf(result.files)[i])

\* C4: a pattern that matches nothing makes load_documents return files = [] and
\* combined_text = "", and it does not raise.
C4_NoMatchGivesEmptyResult ==
    (pc # "idle" /\ matched_paths = <<>>) =>
        /\ pc # "raised"
        /\ pc = "done" => result = [files |-> <<>>, combined_text |-> <<>>]

C4_Witness == pc = "done" /\ matched_paths = <<>>

\* C5: with a corrupted or unreadable .pdf among the matched files the call does not
\* raise, the PDF's section holds the error annotation with the file's name, and
\* every other matched regular file has its own section.
C5_BadPdfDoesNotStopTheLoad ==
    (Finished /\ \E j \in 1..Len(matched_paths) : IsBadPdf(matched_paths[j])) =>
        /\ pc = "done"
        /\ Len(texts) = Len(RegularOf(matched_paths))
        /\ \A i \in 1..Len(texts) :
            LET p == RegularOf(matched_paths)[i] IN
            /\ HasPrefix(texts[i], ExpectedHeader(p))
            /\ IsBadPdf(p) => HasPrefix(ContentOf(texts[i], p), PdfErrorPrefix(p))

\* C6: the extension decides the branch without regard to case, and a regular file
\* that is neither .txt, .md nor .pdf gets the 'unsupported file type' annotation
\* naming it as its section's content, its own content never being opened.
C6_UnsupportedIsAnnotatedNotRead ==
    /\ Len(texts) = Len(Processed)
    /\ \A i \in 1..Len(texts) :
        LET p == Processed[i] IN
        IF IsTextPath(p) \/ IsPdfPath(p)
        THEN /\ Canon(p) \in opened
             /\ texts[i] # ExpectedHeader(p) \o UnsupportedText(p)
        ELSE /\ Canon(p) \notin opened
             /\ texts[i] = ExpectedHeader(p) \o UnsupportedText(p)

C6_Witness ==
    /\ pc = "done"
    /\ \E i, j \in 1..Len(texts) :
        /\ HasExtension(Processed[i], <<46,116,120,116>>)
        /\ Suffix(Processed[i]) # <<46,116,120,116>>
        /\ ~IsTextPath(Processed[j]) /\ ~IsPdfPath(Processed[j])
        /\ ~fs[Canon(Processed[j])].readable

\* C10: the corpus holds exactly one section, headed 'FILE: <path>', for each matched
\* regular file and none for any other matched path, so there are as many sections as
\* matched regular files; and it is the empty string exactly when no matched path is
\* a regular file.
C10_OneSectionPerRegularFile ==
    pc = "done" =>
        /\ Len(texts) = Cardinality({j \in 1..Len(matched_paths) : IsRegular(matched_paths[j])})
        /\ \A j \in 1..Len(matched_paths) :
            Cardinality({i \in 1..Len(texts) : HasPrefix(texts[i], ExpectedHeader(matched_paths[j]))})
                = (IF IsRegular(matched_paths[j]) THEN 1 ELSE 0)
        /\ CorpusHoldsSections
        /\ (result.combined_text = <<>>) <=> (\A j \in 1..Len(matched_paths) : ~IsRegular(matched_paths[j]))

C10_Witness ==
    /\ pc = "done"
    /\ Len(texts) = 2
    /\ Len(matched_paths) = 3
    /\ \E i \in 1..2 : IsBadPdf(Processed[i])

C10_WitnessOnlyDirectories ==
    pc = "done" /\ matched_paths # <<>> /\ result.combined_text = <<>>

(***************************************************************************)
(* Properties of the PDF branch (SpecPdf)                                  *)
(***************************************************************************)
\* what page k of the PDF contributes: its extracted text, the empty string when the
\* extraction yields nothing
Segment(pages, k) == IF pages[k].kind = "text" THEN pages[k].text ELSE <<>>

\* where segment k starts: after the k-1 segments and newlines before it
SegmentStart(pages, k) == SumLen([j \in 1..(k - 1) |-> Segment(pages, j)]) + (k - 1)

\* content is N segments in page order, one newline between two
IsPagesJoined(content, pages) ==
    /\ Len(content) = SumLen([j \in 1..Len(pages) |-> Segment(pages, j)])
                        + (IF pages = <<>> THEN 0 ELSE Len(pages) - 1)
    /\ \A k \in 1..Len(pages) :
        /\ SubSeq(content, SegmentStart(pages, k) + 1,
                  SegmentStart(pages, k) + Len(Segment(pages, k))) = Segment(pages, k)
        /\ k > 1 => content[SegmentStart(pages, k)] = 10

\* C7: the text extracted from a readable .pdf of N pages is the N per-page texts
\* joined by a newline in page order, a page that yields nothing contributing the
\* empty string.
C7_PdfTextIsPagesJoined ==
    (pc = "done" /\ matched_paths # <<>> /\ ~IsBadPdf(matched_paths[1])) =>
        LET p == matched_paths[1] IN
        /\ HasPrefix(result.combined_text, ExpectedHeader(p))
        /\ IsPagesJoined(ContentOf(result.combined_text, p), fs[Canon(p)].pdf.pages)

C7_Witness ==
    /\ pc = "done"
    /\ matched_paths # <<>>
    /\ ~IsBadPdf(matched_paths[1])
    /\ LET pages == fs[Canon(matched_paths[1])].pdf.pages IN
        /\ Len(pages) >= 3
        /\ pages[1].kind = "text" /\ pages[1].text # <<>>
        /\ pages[2].kind = "none"
        /\ pages[3] = [kind |-> "text", text |-> <<>>]

(***************************************************************************)
(* Properties of the text branch (SpecText)                                *)
(***************************************************************************)
TextChars == {97, 233, 13, 10}

\* the contents a file of at most MaxBytes bytes can have been written with
KnownContents == SeqsUpTo(TextChars, MaxBytes)

RECURSIVE CrLfToLf(_)
CrLfToLf(s) ==
    IF Len(s) < 2 THEN s
    ELSE IF s[1] = 13 /\ s[2] = 10 THEN <<10>> \o CrLfToLf(SubSeq(s, 3, Len(s)))
    ELSE <<s[1]>> \o CrLfToLf(Tail(s))

\* every "\r\n", then every remaining "\r", replaced by "\n"
NormalizedNewlines(s) == LET t == CrLfToLf(s) IN [i \in 1..Len(t) |-> IF t[i] = 13 THEN 10 ELSE t[i]]

\* the matched file was written with content c, encoded as UTF-8
WrittenWith(c) == fs[Canon(matched_paths[1])].bytes = Utf8Encode(c)

\* C8 as stated: the text in the section of a .txt/.md file written with known UTF-8
\* content equals that content exactly.
C8_RoundTripExact ==
    (pc = "done" /\ matched_paths # <<>>) =>
        \A c \in KnownContents :
            WrittenWith(c) => ContentOf(result.combined_text, matched_paths[1]) = c

\* C8, amended: the text in the section equals the content with every "\r\n" and
\* every lone "\r" replaced by "\n"; it is the content itself when the content holds
\* no carriage return.
C8_RoundTripUpToNewlines ==
    (pc = "done" /\ matched_paths # <<>>) =>
        \A c \in KnownContents :
            WrittenWith(c) =>
                /\ HasPrefix(result.combined_text, ExpectedHeader(matched_paths[1]))
                /\ ContentOf(result.combined_text, matched_paths[1]) = NormalizedNewlines(c)
                /\ (\A i \in 1..Len(c) : c[i] # 13)
                    => ContentOf(result.combined_text, matched_paths[1]) = c

C8_Witness ==
    /\ pc = "done"
    /\ matched_paths # <<>>
    /\ WrittenWith(<<233, 13>>)
    /\ ContentOf(result.combined_text, matched_paths[1]) = <<233, 10>>

(***************************************************************************)
(* Properties of save_quiz_to_markdown (SpecSave)                          *)
(***************************************************************************)
\* the file an output path names, and the directories above it
TargetOf(path) ==
    IF path = <<113,46,109,100>> THEN <<113,46,109,100>>
    ELSE <<111,117,116,47,115,117,98,47,113,46,109,100>>

AncestorsOf(path) ==
    IF path = <<113,46,109,100>> THEN {} ELSE {<<111,117,116>>, <<111,117,116,47,115,117,98>>}

\* after a call that returned: the file holds the content, its ancestors are directories
SavedAsGiven ==
    pc = "saved" =>
        /\ result.status = "saved"
        /\ fs[TargetOf(call.path)].kind = "file"
        /\ Utf8Decode(fs[TargetOf(call.path)].bytes) = [ok |-> TRUE, text |-> call.content]
        /\ \A a \in AncestorsOf(call.path) : fs[a].kind = "dir"

\* a call that returns touches only the file and its ancestors
SaveTouchesOnlyTarget ==
    pc' = "saved" =>
        \A q \in DOMAIN fs :
            (q # TargetOf(call'.path) /\ q \notin AncestorsOf(call'.path)) => fs'[q] = fs[q]

\* saving again what the last call saved, to the same file, changes nothing
SaveAgainChangesNothing ==
    (/\ pc = "saved"
     /\ pc' = "saved"
     /\ call'.content = call.content
     /\ TargetOf(call'.path) = TargetOf(call.path)) => fs' = fs

\* C9: save_quiz_to_markdown creates the missing parent directories, overwrites a file
\* already at the path, and once it has returned 'saved' the file holds exactly the
\* input string, UTF-8 encoded; writing the same content a second time leaves the
\* filesystem as the first write left it.
C9_SaveWritesContentExactly ==
    /\ []SavedAsGiven
    /\ [][SaveTouchesOnlyTarget /\ SaveAgainChangesNothing]_vars

C9_Witness ==
    /\ pc = "saved"
    /\ call.before = <<"absent", "absent", "absent">>
    /\ call.content = <<233, 10>>
    /\ fs[<<111,117,116,47,115,117,98,47,113,46,109,100>>].bytes = <<195, 169, 10>>

C9_WitnessOverwrite ==
    /\ pc = "saved"
    /\ call.before[1] = "file"
    /\ call.content = <<>>

====
